---- MODULE Spec2Model ----
(***************************************************************************)
(* Remote command execution engine of python-mytest-multihost:             *)
(* SSHCommand (a child process, two drainer threads, send/wait and the     *)
(* output accessors) and the BaseHost operations built on it.              *)
(*                                                                         *)
(* Bytes are integers; the alphabet holds an ASCII byte (97, "a") and the  *)
(* two bytes of one two-byte UTF-8 sequence (195 169, U+00E9), so that a   *)
(* byte string can be valid text, invalid text, or valid text cut in the   *)
(* middle of a code point.  Text is a sequence of code points (97, 233).   *)
(* Python values that a caller can see are tagged with their type, since   *)
(* b"a" and "a" are different values.                                      *)
(***************************************************************************)
EXTENDS Integers, Sequences, FiniteSets, TLC

\* ---------------------------------------------------------------- bounds
MaxBytes == 2    \* most bytes a process writes, stdout and stderr together
PipeCap == 1     \* capacity of an OS pipe, in bytes
MaxCalls == 2    \* most send() and wait() calls made on one command
MaxOps == 2      \* most BaseHost methods called on one host
MaxSsh == 2      \* most ssh clients started where connections are followed
MaxConf == 1     \* most changes made to the settings of the host objects
MaxSets == 1     \* most assignments to stdout_text of one command

\* ---------------------------------------------------------------- values
None == -1                       \* returncode before wait(): Python's None
Byte == {97, 195, 169}
Streams == {"out", "err"}
Encodings == {"utf-8", "None"}   \* encoding='utf-8' (default) or encoding=None
ExitCodes == {0, 1}

Str(s) == [t |-> "str", v |-> s]
Bytes(b) == [t |-> "bytes", v |-> b]
NoValue == [t |-> "none", v |-> <<>>]


RECURSIVE Utf8Valid(_)
Utf8Valid(b) ==
    IF b = <<>> THEN TRUE
    ELSE IF Head(b) = 97 THEN Utf8Valid(Tail(b))
    ELSE IF Head(b) = 195 /\ Len(b) >= 2 /\ b[2] = 169 THEN Utf8Valid(Tail(Tail(b)))
    ELSE FALSE

\* bytes.decode('utf-8') of a valid byte string
RECURSIVE Utf8Decode(_)
Utf8Decode(b) ==
    IF b = <<>> THEN <<>>
    ELSE IF Head(b) = 97 THEN <<97>> \o Utf8Decode(Tail(b))
    ELSE <<233>> \o Utf8Decode(Tail(Tail(b)))

\* str.encode('utf-8')
RECURSIVE Utf8Encode(_)
Utf8Encode(s) ==
    IF s = <<>> THEN <<>>
    ELSE (IF Head(s) = 97 THEN <<97>> ELSE <<195, 169>>) \o Utf8Encode(Tail(s))

\* b"".join(chunks)
RECURSIVE Join(_)
Join(chunks) == IF chunks = <<>> THEN <<>> ELSE Head(chunks) \o Join(Tail(chunks))

\* ---------------------------------------------------------------- state
VARIABLES
    cmds,     \* the SSHCommand objects created so far, each with its child process
    caller,   \* the calling thread: engine-level position and the command it is in
    result,   \* outcome of the caller's last completed engine call
    seen,     \* outcome of the last accessor read
    hist,     \* per command: calls made, runs of the close/join sequence
    remote,   \* the remote host's files and directories
    host,     \* the BaseHost call in progress, or the last one and its outcome
    mux       \* the ssh clients' connections: control sockets, sessions, host settings

vars == <<cmds, caller, result, seen, hist, remote, host, mux>>

CmdIds == 1..Len(cmds)

\* self.out_data / self.err_data of command object o: the list objects handed
\* to the drainers, until the stdout_text setter binds self.out_data to a list
\* of its own
out_data(o) == IF o.rebound.n > 0 THEN o.rebound.data ELSE o.store["out"]
err_data(o) == o.store["err"]

\* ControlPersist: the ssh client that opens the control connection forks; the
\* child stays in the background as the master, the parent carries on as the
\* client of the command.  The master points its stdin and stdout at /dev/null
\* and, depending on the OpenSSH release (mux.keeps), leaves its stderr on the
\* descriptor it inherited: the write end of the stderr pipe of command c, for
\* as long as the master lives.
Held(c, s) ==
    /\ s = "err" /\ mux.keeps
    /\ c \in DOMAIN mux.ssh
    /\ mux.sock[mux.ssh[c].path] = c

\* end-of-stream on the child's output pipe s: nothing buffered and every
\* write end closed
Eof(c, s) == cmds[c].pipe[s] = <<>> /\ cmds[c].proc = "exited" /\ ~Held(c, s)

\* ------------------------------------------------------------ accessors
\* stdout_text without the try/except around decode
stdout_text_NoCatch(o) ==
    IF o.returncode # None
    THEN LET stdout == Join(out_data(o)) IN
         IF o.encoding # "None"
         THEN IF Utf8Valid(stdout)
              THEN [val |-> Str(Utf8Decode(stdout)), exc |-> "none"]
              ELSE [val |-> NoValue, exc |-> "UnicodeDecodeError"]
         ELSE [val |-> Bytes(stdout), exc |-> "none"]
    ELSE [val |-> Str(<<>>), exc |-> "none"]

\* SSHCommand.stdout_text (getter)
stdout_text(o) ==
    IF o.returncode # None
    THEN LET stdout == Join(out_data(o)) IN
         IF o.encoding # "None" /\ Utf8Valid(stdout)
         THEN [val |-> Str(Utf8Decode(stdout)), exc |-> "none"]
         ELSE [val |-> Bytes(stdout), exc |-> "none"]
    ELSE [val |-> Str(<<>>), exc |-> "none"]

\* stderr_text without the test of self.returncode
stderr_text_NoGate(o) ==
    LET stderr == Join(err_data(o)) IN
    IF Utf8Valid(stderr)
    THEN [val |-> Str(Utf8Decode(stderr)), exc |-> "none"]
    ELSE [val |-> NoValue, exc |-> "UnicodeDecodeError"]

\* stderr_text with the try/except of stdout_text
stderr_text_Catch(o) ==
    IF o.returncode # None
    THEN LET stderr == Join(err_data(o)) IN
         IF Utf8Valid(stderr)
         THEN [val |-> Str(Utf8Decode(stderr)), exc |-> "none"]
         ELSE [val |-> Bytes(stderr), exc |-> "none"]
    ELSE [val |-> Str(<<>>), exc |-> "none"]

\* SSHCommand.stderr_text (getter): decodes with the encoding, or with the
\* default codec (utf-8) when encoding is None; no try/except
stderr_text(o) ==
    IF o.returncode # None
    THEN LET stderr == Join(err_data(o)) IN
         IF Utf8Valid(stderr)
         THEN [val |-> Str(Utf8Decode(stderr)), exc |-> "none"]
         ELSE [val |-> NoValue, exc |-> "UnicodeDecodeError"]
    ELSE [val |-> Str(<<>>), exc |-> "none"]

\* ------------------------------------------------------------ construction
\* What the spawned child does.  "any": writes any bytes and terminates with
\* any code.  "fixed": writes todo, terminates with code, and applies effect
\* to the remote host when it terminates.
AnyProgram(waitsEof) ==
    [prog |-> "any", todo |-> [s \in Streams |-> <<>>], code |-> None,
     waitsEof |-> waitsEof, effect |-> "none", names |-> <<>>]

\* a constructor that starts the stdout drainer only
NewCommand_NoErrThread(variant, encoding, argv, run) ==
    [variant |-> variant,
     encoding |-> encoding,
     argv |-> argv,
     returncode |-> None,
     store |-> [s \in Streams |-> <<>>],
     rebound |-> [n |-> 0, data |-> <<>>],
     closed |-> [s \in {"in", "out", "err"} |-> FALSE],
     thread |-> [s \in Streams |-> [st |-> IF s = "out" THEN "reading" ELSE "idle",
                                     buf |-> <<>>]],
     run |-> run,
     proc |-> "running",
     written |-> [s \in Streams |-> <<>>],
     exit |-> None,
     pipe |-> [s \in {"in", "out", "err"} |-> <<>>]]

\* SSHCommand.__init__: fields set, process spawned, both drainers started
NewCommand(variant, encoding, argv, run) ==
    [variant |-> variant,
     encoding |-> encoding,
     argv |-> argv,
     returncode |-> None,
     store |-> [s \in Streams |-> <<>>],
     rebound |-> [n |-> 0, data |-> <<>>],
     closed |-> [s \in {"in", "out", "err"} |-> FALSE],
     thread |-> [s \in Streams |-> [st |-> "reading", buf |-> <<>>]],
     run |-> run,
     proc |-> "running",
     written |-> [s \in Streams |-> <<>>],
     exit |-> None,
     pipe |-> [s \in {"in", "out", "err"} |-> <<>>]]

NoResult == [op |-> "none", c |-> 0, rc |-> None, exc |-> "none"]
NoSeen == [acc |-> "none", c |-> 0, fin |-> FALSE, raw |-> <<>>, val |-> NoValue, exc |-> "none"]
\* held: the caller has a reference to the command object
\* bg: the command was started in the background
NoHist == [waits |-> 0, sends |-> 0, seq |-> 0, held |-> TRUE, bg |-> FALSE]
NoRemote == [files |-> <<>>, dirs |-> {}]
NoCall == [fn |-> "none", a |-> <<>>, exc |-> "none"]
\* cls: the class of the host object, Host or WinHost
NoHost == [fn |-> "none", phase |-> "done", a |-> <<>>, first |-> 0, exc |-> "none",
           val |-> NoValue, cmd |-> 0, prev |-> NoCall, nops |-> 0, cls |-> "Host"]

\* no ssh client has connected: no control socket, no session
NoMux == [hosts |-> <<>>, sock |-> <<>>, ssh |-> <<>>, reset |-> <<>>, nconf |-> 0,
          keeps |-> FALSE]

\* one SSHCommand, constructed by the test code itself
Init ==
    /\ \E encoding \in Encodings, waitsEof \in BOOLEAN :
          cmds = <<NewCommand("mytest", encoding, <<>>, AnyProgram(waitsEof))>>
    /\ caller = [pc |-> "idle", cur |-> 0]
    /\ result = NoResult
    /\ seen = NoSeen
    /\ hist = <<NoHist>>
    /\ remote = NoRemote
    /\ host = NoHost
    /\ mux = NoMux

\* ------------------------------------------------------------ the process
\* the bytes the child may write next to stream s
NextBytes(c, s) ==
    IF cmds[c].run.prog = "any"
    THEN IF Len(cmds[c].written["out"]) + Len(cmds[c].written["err"]) < MaxBytes
         THEN Byte ELSE {}
    ELSE LET left == SubSeq(cmds[c].run.todo[s], Len(cmds[c].written[s]) + 1,
                            Len(cmds[c].run.todo[s]))
         IN IF left = <<>> THEN {} ELSE {Head(left)}

\* the exit codes the child may terminate with
NextExit(c) ==
    IF cmds[c].run.prog = "any" THEN ExitCodes
    ELSE IF NextBytes(c, "out") = {} /\ NextBytes(c, "err") = {} THEN {cmds[c].run.code}
    ELSE {}

\* the remote host after the child's effect: tee writes what it read from stdin
\* to every named file, mkdir -p creates the named directories
Effect(c) ==
    CASE cmds[c].run.effect = "write" ->
           LET names == {cmds[c].run.names[i] : i \in DOMAIN cmds[c].run.names} IN
           [remote EXCEPT !.files =
               [w \in DOMAIN remote.files \cup names |->
                   IF w \in names THEN cmds[c].pipe["in"] ELSE remote.files[w]]]
      [] cmds[c].run.effect = "mkdir" ->
           [remote EXCEPT !.dirs = @ \cup {cmds[c].run.names[i] : i \in DOMAIN cmds[c].run.names}]
      [] OTHER -> remote

\* the child writes a byte to its end of pipe s (blocks while the pipe is full)
ProcWrite(c, s) ==
    /\ cmds[c].proc = "running"
    /\ Len(cmds[c].pipe[s]) < PipeCap
    /\ \E b \in NextBytes(c, s) :
          cmds' = [cmds EXCEPT ![c].pipe[s] = Append(@, b),
                               ![c].written[s] = Append(@, b)]
    /\ UNCHANGED <<caller, result, seen, hist, remote, host, mux>>

\* the child terminates, closing its ends of the pipes; a child that reads its
\* input to the end terminates only after stdin was closed
ProcExit(c) ==
    /\ cmds[c].proc = "running"
    /\ cmds[c].run.waitsEof => cmds[c].closed["in"]
    /\ \E e \in NextExit(c) :
          cmds' = [cmds EXCEPT ![c].proc = "exited", ![c].exit = e]
    /\ remote' = Effect(c)
    /\ UNCHANGED <<caller, result, seen, hist, host, mux>>

\* ------------------------------------------------------------ the drainers
\* inside stream.read(): bytes move from the pipe into the read's buffer
RecvFill(c, s) ==
    /\ cmds[c].thread[s].st = "reading"
    /\ \E k \in 1..Len(cmds[c].pipe[s]) :
          cmds' = [cmds EXCEPT ![c].thread[s].buf = @ \o SubSeq(cmds[c].pipe[s], 1, k),
                               ![c].pipe[s] = SubSeq(@, k + 1, Len(@))]
    /\ UNCHANGED <<caller, result, seen, hist, remote, host, mux>>

\* a store that keeps only the latest chunk
StoreAppend_Replace(store, data) == <<data>>

\* store.append(data)
StoreAppend(store, data) == Append(store, data)

\* _do_recv: stream.read() returns data; b'' ends the loop, anything else is
\* appended to the store.  read() returns at end-of-stream, or earlier with the
\* bytes it has (a short read).
do_recv(c, s) ==
    /\ cmds[c].thread[s].st = "reading"
    /\ Eof(c, s) \/ cmds[c].thread[s].buf # <<>>
    /\ LET data == cmds[c].thread[s].buf IN
       IF data = <<>>
       THEN cmds' = [cmds EXCEPT ![c].thread[s].st = "done"]
       ELSE cmds' = [cmds EXCEPT ![c].store[s] = StoreAppend(@, data),
                                 ![c].thread[s].buf = <<>>]
    /\ UNCHANGED <<caller, result, seen, hist, remote, host, mux>>

\* ------------------------------------------------------------ send
SendData == {NoValue, Str(<<233>>), Bytes(<<195>>)}

\* a send that writes text as it is
SendBytes_NoEncode(data) == data.v

\* the bytes send() writes for data: bytes as they are, text encoded with the
\* encoding or, without one, with the default codec (utf-8 as well)
SendBytes(data) == IF data.t = "bytes" THEN data.v ELSE Utf8Encode(data.v)

\* SSHCommand.send; the result of a send that returned names what it was given
send(c, data) ==
    /\ caller.pc = "idle"
    /\ hist[c].held
    /\ hist[c].sends + hist[c].waits < MaxCalls
    /\ hist' = [hist EXCEPT ![c].sends = @ + 1]
    /\ IF data.v = <<>>
       THEN /\ result' = [op |-> "send", c |-> c, rc |-> None, exc |-> "none", data |-> data]
            /\ UNCHANGED cmds
       ELSE IF cmds[c].closed["in"]
       THEN /\ result' = [op |-> "send", c |-> c, rc |-> None, exc |-> "ValueError"]
            /\ UNCHANGED cmds
       ELSE IF cmds[c].proc = "exited"
       THEN /\ result' = [op |-> "send", c |-> c, rc |-> None, exc |-> "BrokenPipeError"]
            /\ UNCHANGED cmds
       ELSE /\ result' = [op |-> "send", c |-> c, rc |-> None, exc |-> "none", data |-> data]
            /\ cmds' = [cmds EXCEPT ![c].pipe["in"] = @ \o SendBytes(data)]
    /\ UNCHANGED <<caller, seen, remote, host, mux>>

\* ------------------------------------------------------------ wait
\* `if not self.returncode`: None and 0 are both falsy
NotReturncode(rc) == rc = None \/ rc = 0

\* wait(): the test of self.returncode; either the cached code is returned or
\* the close/join sequence is entered
WaitEnter(c) ==
    /\ caller.pc = "idle"
    /\ hist[c].held
    /\ hist[c].sends + hist[c].waits < MaxCalls
    /\ IF NotReturncode(cmds[c].returncode)
       THEN /\ caller' = [pc |-> "close_stdin", cur |-> c]
            /\ hist' = [hist EXCEPT ![c].waits = @ + 1, ![c].seq = @ + 1]
            /\ result' = [op |-> "wait", c |-> c, rc |-> None, exc |-> "running"]
       ELSE /\ caller' = caller
            /\ hist' = [hist EXCEPT ![c].waits = @ + 1]
            /\ result' = [op |-> "wait", c |-> c, rc |-> cmds[c].returncode, exc |-> "none"]
    /\ UNCHANGED <<cmds, seen, remote, host, mux>>

\* a wait() that leaves stdin open
WaitCloseStdin_Skip ==
    /\ caller.pc = "close_stdin"
    /\ caller' = [caller EXCEPT !.pc = "join_out"]
    /\ UNCHANGED <<cmds, result, seen, hist, remote, host, mux>>

\* self.cmd.stdin.close()
WaitCloseStdin ==
    /\ caller.pc = "close_stdin"
    /\ cmds' = [cmds EXCEPT ![caller.cur].closed["in"] = TRUE]
    /\ caller' = [caller EXCEPT !.pc = "join_out"]
    /\ UNCHANGED <<result, seen, hist, remote, host, mux>>

\* a join that returns while the drainer is still running
WaitJoin_NoWait(s) ==
    /\ caller.pc = "join_" \o s
    /\ caller' = [caller EXCEPT !.pc = "close_" \o s]
    /\ UNCHANGED <<cmds, result, seen, hist, remote, host, mux>>

\* self.out_thread.join() / self.err_thread.join()
WaitJoin(s) ==
    /\ caller.pc = "join_" \o s
    /\ cmds[caller.cur].thread[s].st = "done"
    /\ caller' = [caller EXCEPT !.pc = "close_" \o s]
    /\ UNCHANGED <<cmds, result, seen, hist, remote, host, mux>>

\* self.cmd.stdout.close() / self.cmd.stderr.close()
WaitClose(s) ==
    /\ caller.pc = "close_" \o s
    /\ cmds' = [cmds EXCEPT ![caller.cur].closed[s] = TRUE]
    /\ caller' = [caller EXCEPT !.pc = IF s = "out" THEN "join_err" ELSE "proc_wait"]
    /\ UNCHANGED <<result, seen, hist, remote, host, mux>>

\* what wait() does after self.returncode is assigned: the mytest class formats
\* self.stderr_text into a log message when the code is non-zero (the argument
\* is evaluated whether or not a logger is set); the pytest class does nothing
WaitLogExc(variant, rc, errText) ==
    IF variant = "mytest" /\ rc # 0 THEN errText.exc ELSE "none"

\* self.returncode = self.cmd.wait(), the logging, and the return
WaitProc ==
    /\ caller.pc = "proc_wait"
    /\ cmds[caller.cur].proc = "exited"
    /\ LET c == caller.cur
           o == [cmds[c] EXCEPT !.returncode = cmds[c].exit]
       IN /\ cmds' = [cmds EXCEPT ![c] = o]
          /\ result' = [op |-> "wait", c |-> c, rc |-> o.returncode,
                        exc |-> WaitLogExc(o.variant, o.returncode, stderr_text(o))]
    /\ caller' = IF host.phase = "done" THEN [pc |-> "idle", cur |-> 0]
                  ELSE [pc |-> "exec_ret", cur |-> caller.cur]
    /\ UNCHANGED <<seen, hist, remote, host, mux>>

\* ------------------------------------------------------------ accessor reads
\* a read of cmd.stdout_text, at any moment
ReadStdout(c) ==
    /\ hist[c].held
    /\ seen' = [acc |-> "stdout", c |-> c, fin |-> cmds[c].returncode # None,
                raw |-> IF cmds[c].returncode # None THEN Join(out_data(cmds[c])) ELSE <<>>,
                val |-> stdout_text(cmds[c]).val, exc |-> stdout_text(cmds[c]).exc]
    /\ UNCHANGED <<cmds, caller, result, hist, remote, host, mux>>

\* a read of cmd.stderr_text, at any moment
ReadStderr(c) ==
    /\ hist[c].held
    /\ seen' = [acc |-> "stderr", c |-> c, fin |-> cmds[c].returncode # None,
                raw |-> IF cmds[c].returncode # None THEN Join(err_data(cmds[c])) ELSE <<>>,
                val |-> stderr_text(cmds[c]).val, exc |-> stderr_text(cmds[c]).exc]
    /\ UNCHANGED <<cmds, caller, result, hist, remote, host, mux>>

\* the stdout_text setter of the mytest class: self.out_data is bound to a new
\* list holding the encoded value; the stdout drainer keeps the list it was
\* started with
SetValues == {Str(<<97>>), Str(<<233>>)}

stdout_text_set(c, value) ==
    /\ caller.pc = "idle"
    /\ hist[c].held
    /\ cmds[c].variant = "mytest"
    /\ cmds[c].rebound.n < MaxSets
    /\ cmds' = [cmds EXCEPT ![c].rebound = [n |-> @.n + 1, data |-> <<Utf8Encode(value.v)>>]]
    /\ UNCHANGED <<caller, result, seen, hist, remote, host, mux>>

\* ------------------------------------------------------------ engine specification
Next ==
    \/ \E c \in CmdIds, s \in Streams : ProcWrite(c, s)
    \/ \E c \in CmdIds : ProcExit(c)
    \/ \E c \in CmdIds, s \in Streams : RecvFill(c, s)
    \/ \E c \in CmdIds, s \in Streams : do_recv(c, s)
    \/ \E c \in CmdIds, data \in SendData : send(c, data)
    \/ \E c \in CmdIds : WaitEnter(c)
    \/ WaitCloseStdin
    \/ \E s \in Streams : WaitJoin(s)
    \/ \E s \in Streams : WaitClose(s)
    \/ WaitProc
    \/ \E c \in CmdIds : ReadStdout(c)
    \/ \E c \in CmdIds : ReadStderr(c)

Spec == Init /\ [][Next]_vars

\* the process, the drainer threads and a caller that may call wait(); the
\* drainers are threads of their own, which the scheduler runs whenever they
\* can take a step
NextDrain ==
    \/ \E c \in CmdIds, s \in Streams : ProcWrite(c, s)
    \/ \E c \in CmdIds : ProcExit(c)
    \/ \E c \in CmdIds, s \in Streams : RecvFill(c, s)
    \/ \E c \in CmdIds, s \in Streams : do_recv(c, s)
    \/ \E c \in CmdIds : WaitEnter(c)
    \/ WaitCloseStdin
    \/ \E s \in Streams : WaitJoin(s)
    \/ \E s \in Streams : WaitClose(s)
    \/ WaitProc

ThreadsFair == \A s \in Streams : WF_vars(RecvFill(1, s)) /\ WF_vars(do_recv(1, s))

SpecDrain == Init /\ [][NextDrain]_vars /\ ThreadsFair

\* the engine with assignments to stdout_text
NextSet ==
    \/ Next
    \/ \E c \in CmdIds, value \in SetValues : stdout_text_set(c, value)

SpecSet == Init /\ [][NextSet]_vars

\* ------------------------------------------------------------ command lines
\* A string is a sequence of symbols: " " is white space, "\"" a double quote,
\* every other symbol a run of ordinary characters.  A word is a string without
\* unquoted white space.

\* shlex.split(str), cur being the word read so far
RECURSIVE SplitFrom(_, _, _)
SplitFrom(str, cur, inq) ==
    IF str = <<>> THEN (IF cur = <<>> THEN <<>> ELSE <<cur>>)
    ELSE IF Head(str) = "\"" THEN SplitFrom(Tail(str), cur, ~inq)
    ELSE IF Head(str) = " " /\ ~inq
         THEN (IF cur = <<>> THEN <<>> ELSE <<cur>>) \o SplitFrom(Tail(str), <<>>, FALSE)
    ELSE SplitFrom(Tail(str), Append(cur, Head(str)), inq)

shlex_split(str) == SplitFrom(str, <<>>, FALSE)

\* SSHCommand.__init__: `if isinstance(command, str): command = shlex.split(command)`
Tokens(command) == IF command.kind = "str" THEN shlex_split(command.v) ELSE command.v

\* SSHCommand.__init__: a token that is not one shell word is put in double quotes
QuoteToken(x) == IF Len(shlex_split(x)) = 1 THEN x ELSE <<"\"">> \o x \o <<"\"">>

\* ssh sends its arguments joined by blanks; the remote shell splits them again
RECURSIVE JoinBlank(_)
JoinBlank(tokens) ==
    IF tokens = <<>> THEN <<>>
    ELSE IF Len(tokens) = 1 THEN Head(tokens)
    ELSE Head(tokens) \o <<" ">> \o JoinBlank(Tail(tokens))

\* the words the remote shell sees for the tokens given to SSHCommand
RemoteArgv(tokens) == shlex_split(JoinBlank([i \in DOMAIN tokens |-> QuoteToken(tokens[i])]))

StrCmd(s) == [kind |-> "str", v |-> s]
ListCmd(l) == [kind |-> "list", v |-> l]

RECURSIVE Without(_, _)
Without(words, w) ==
    IF words = <<>> THEN <<>>
    ELSE (IF Head(words) = w THEN <<>> ELSE <<Head(words)>>) \o Without(Tail(words), w)

\* cat: the contents of the named files that exist, in order
RECURSIVE CatOut(_, _)
CatOut(names, files) ==
    IF names = <<>> THEN <<>>
    ELSE (IF Head(names) \in DOMAIN files THEN files[Head(names)] ELSE <<>>)
         \o CatOut(Tail(names), files)

Fixed(out, err, code, waitsEof, effect, names) ==
    [prog |-> "fixed", todo |-> [out |-> out, err |-> err], code |-> code,
     waitsEof |-> waitsEof, effect |-> effect, names |-> names]

\* the words between the first "(" and the last word, the closing ")"
Inner(argv) ==
    LET open == CHOOSE i \in DOMAIN argv : argv[i] = <<"(">> /\ \A j \in 1..(i - 1) : argv[j] # <<"(">>
    IN SubSeq(argv, open + 1, Len(argv) - 1)

\* the programs the tests run through run_command: echo prints its operands and
\* exits 0; false exits 1; garble writes a byte that is not text to stderr and
\* exits 0, garblefail does the same and exits 1; read consumes its input to
\* the end and exits 0
UserRun(argv) ==
    LET util == IF argv = <<>> THEN <<>> ELSE Head(argv) IN
    CASE util = <<"echo">> -> Fixed(<<97>>, <<>>, 0, FALSE, "none", <<>>)
      [] util = <<"false">> -> Fixed(<<>>, <<>>, 1, FALSE, "none", <<>>)
      [] util = <<"garble">> -> Fixed(<<>>, <<195>>, 0, FALSE, "none", <<>>)
      [] util = <<"garblefail">> -> Fixed(<<>>, <<195>>, 1, FALSE, "none", <<>>)
      [] util = <<"read">> -> Fixed(<<>>, <<>>, 0, TRUE, "none", <<>>)
      [] OTHER -> AnyProgram(FALSE)

\* what the remote shell runs for argv on a host in state rem.  `test -f`, `cat`,
\* `tee` and `mkdir -p` behave as the utilities do (a usage or file error is one
\* ASCII message on stderr); a `( ... )` group runs the caller's program.
RemoteRun(argv, rem) ==
    LET util == IF argv = <<>> THEN <<>> ELSE Head(argv)
        rest == IF argv = <<>> THEN <<>> ELSE Tail(argv)
    IN CASE util = <<"test">> ->
              IF Len(rest) = 2 /\ rest[1] = <<"-f">>
              THEN Fixed(<<>>, <<>>, IF rest[2] \in DOMAIN rem.files THEN 0 ELSE 1,
                         FALSE, "none", <<>>)
              ELSE Fixed(<<>>, <<97>>, 2, FALSE, "none", <<>>)
         [] util = <<"cat">> ->
              IF \A i \in DOMAIN rest : rest[i] \in DOMAIN rem.files
              THEN Fixed(CatOut(rest, rem.files), <<>>, 0, rest = <<>>, "none", <<>>)
              ELSE Fixed(CatOut(rest, rem.files), <<97>>, 1, FALSE, "none", <<>>)
         [] util = <<"tee">> ->
              Fixed(<<>>, <<>>, 0, TRUE, "write", Without(rest, <<"1>>/dev/null">>))
         [] util = <<"mkdir">> ->
              Fixed(<<>>, <<>>, 0, FALSE, "mkdir", Without(rest, <<"-p">>))
         [] \E i \in DOMAIN argv : argv[i] = <<"(">> -> UserRun(Inner(argv))
         [] OTHER -> AnyProgram(FALSE)

\* ------------------------------------------------------------ BaseHost
test_dir == <<"d">>                     \* self.test_dir
env_sh_path == test_dir \o <<"/env.sh">>   \* os.path.join(self.test_dir, 'env.sh')
\* BaseHost.command_prelude is '', Host overrides it with 'set -e', WinHost
\* inherits it
command_prelude == IF host.cls = "Host" THEN <<"set", " ", "-e">> ELSE <<>>

Idle == [pc |-> "idle", cur |-> 0]

\* `if cmd.returncode: self.log.info("STDERR {}".format(cmd.stderr_text))`
ExecLogExc(o) == IF o.returncode # 0 THEN stderr_text(o).exc ELSE "none"

\* a command object nothing refers to any more: only what it ran and how that
\* ended is still of interest
Tomb(o) ==
    [o EXCEPT !.store = [s \in Streams |-> <<>>],
              !.written = [s \in Streams |-> <<>>],
              !.pipe = [s \in {"in", "out", "err"} |-> <<>>]]

\* the command objects once the locals of the returning method are gone:
\* every object the caller holds no reference to is garbage
Collect(cs, hs) == [i \in DOMAIN cs |-> IF hs[i].held THEN cs[i] ELSE Tomb(cs[i])]

\* a command object of an earlier call that has been freed
Gone(o) == [Tomb(o) EXCEPT !.argv = <<>>, !.run = AnyProgram(FALSE), !.encoding = "None"]

\* the command objects at the start of a new call
Forget(cs, hs) == [i \in DOMAIN cs |-> IF hs[i].held THEN cs[i] ELSE Gone(cs[i])]

\* _exec_command up to the point where it blocks or returns: the SSHCommand is
\* constructed, stdin_data is sent and, unless bg, wait() is entered
exec_command(command, stdin_data, bg, encoding) ==
    LET argv == RemoteArgv(Tokens(command))
        o == NewCommand("pytest", encoding, argv, RemoteRun(argv, remote))
        id == Len(cmds) + 1
    IN /\ cmds' = Append(IF host.phase = "done" THEN Forget(cmds, hist) ELSE Collect(cmds, hist),
                    IF stdin_data.v # <<>>
                    THEN [o EXCEPT !.pipe["in"] = SendBytes(stdin_data)] ELSE o)
       /\ hist' = Append(hist, [waits |-> IF bg THEN 0 ELSE 1,
                                sends |-> IF stdin_data.v # <<>> THEN 1 ELSE 0,
                                seq |-> IF bg THEN 0 ELSE 1,
                                held |-> bg, bg |-> bg])
       /\ caller' = IF bg THEN Idle ELSE [pc |-> "close_stdin", cur |-> id]
       /\ result' = IF bg THEN result
                    ELSE [op |-> "wait", c |-> id, rc |-> None, exc |-> "running"]

\* a BaseHost method is entered
Enter(fn, phase, a) ==
    [fn |-> fn, phase |-> phase, a |-> a, first |-> Len(cmds) + 1, exc |-> "none",
     val |-> NoValue, cmd |-> 0,
     prev |-> [fn |-> host.fn, exc |-> host.exc,
               a |-> IF host.fn = "put_file_contents" THEN host.a ELSE <<>>],
     nops |-> host.nops + 1, cls |-> host.cls]

CanCall == host.phase = "done" /\ caller.pc = "idle" /\ host.nops < MaxOps

\* the method returns val (or raises exc) without launching anything more
Finish(exc, val, cmd) ==
    /\ host' = [host EXCEPT !.phase = "done", !.exc = exc, !.val = val, !.cmd = cmd]
    /\ caller' = Idle
    /\ hist' = IF cmd = 0 THEN hist ELSE [hist EXCEPT ![cmd].held = TRUE]
    /\ cmds' = Collect(cmds, hist')
    /\ UNCHANGED result

\* _exec_command has come back from wait() inside method fn at phase
Back(fn, phase) == caller.pc = "exec_ret" /\ host.fn = fn /\ host.phase = phase

BoolVal(b) == [t |-> "bool", v |-> IF b THEN <<1>> ELSE <<0>>]

\* BaseHost.file_exists, to its _exec_command
file_exists(filename) ==
    /\ CanCall
    /\ host' = Enter("file_exists", "test", [filename |-> filename])
    /\ exec_command(StrCmd(<<"test", " ", "-f", " ">> \o filename), NoValue, FALSE, "utf-8")
    /\ UNCHANGED <<seen, remote, mux>>

\* BaseHost.file_exists, from its _exec_command to the return
file_exists_ret ==
    /\ Back("file_exists", "test")
    /\ LET o == cmds[caller.cur] IN
       IF ExecLogExc(o) # "none" THEN Finish(ExecLogExc(o), NoValue, 0)
       ELSE Finish("none", BoolVal(o.returncode = 0), 0)
    /\ UNCHANGED <<seen, remote, mux>>

\* BaseHost.mkdir, to its _exec_command
mkdir(path) ==
    /\ CanCall
    /\ host' = Enter("mkdir", "mkdir", [path |-> path])
    /\ exec_command(StrCmd(<<"mkdir", " ", "-p", " ">> \o path), NoValue, FALSE, "utf-8")
    /\ UNCHANGED <<seen, remote, mux>>

\* BaseHost.mkdir, from its _exec_command to the return
mkdir_ret ==
    /\ Back("mkdir", "mkdir")
    /\ Finish(ExecLogExc(cmds[caller.cur]), NoValue, 0)
    /\ UNCHANGED <<seen, remote, mux>>

\* BaseHost.get_file_contents, to the _exec_command of file_exists
get_file_contents(filename, encoding) ==
    /\ CanCall
    /\ host' = Enter("get_file_contents", "exists", [filename |-> filename, encoding |-> encoding])
    /\ exec_command(StrCmd(<<"test", " ", "-f", " ">> \o filename), NoValue, FALSE, "utf-8")
    /\ UNCHANGED <<seen, remote, mux>>

\* get_file_contents that reads the file whatever file_exists returned
get_file_contents_exists_NoCheck ==
    /\ Back("get_file_contents", "exists")
    /\ host' = [host EXCEPT !.phase = "cat"]
    /\ exec_command(StrCmd(<<"cat", " ">> \o host.a.filename), NoValue, FALSE, "None")
    /\ UNCHANGED <<seen, remote, mux>>

\* BaseHost.get_file_contents, from file_exists to `raise IOError` or to the
\* _exec_command of cat
get_file_contents_exists ==
    /\ Back("get_file_contents", "exists")
    /\ LET o == cmds[caller.cur] IN
       IF ExecLogExc(o) # "none" THEN Finish(ExecLogExc(o), NoValue, 0)
       ELSE IF o.returncode # 0 THEN Finish("IOError", NoValue, 0)
       ELSE /\ host' = [host EXCEPT !.phase = "cat"]
            /\ exec_command(StrCmd(<<"cat", " ">> \o host.a.filename), NoValue, FALSE, "None")
    /\ UNCHANGED <<seen, remote, mux>>

\* the value get_file_contents returns for the finished cat command o
Contents(o, encoding) ==
    IF o.returncode # 0 THEN [val |-> NoValue, exc |-> "none"]
    ELSE LET contents == Join(out_data(o)) IN
         IF encoding = "None" THEN [val |-> Bytes(contents), exc |-> "none"]
         ELSE IF Utf8Valid(contents) THEN [val |-> Str(Utf8Decode(contents)), exc |-> "none"]
         ELSE [val |-> NoValue, exc |-> "UnicodeDecodeError"]

\* BaseHost.get_file_contents, from the _exec_command of cat to the return
get_file_contents_cat ==
    /\ Back("get_file_contents", "cat")
    /\ LET o == cmds[caller.cur] IN
       IF ExecLogExc(o) # "none" THEN Finish(ExecLogExc(o), NoValue, 0)
       ELSE Finish(Contents(o, host.a.encoding).exc, Contents(o, host.a.encoding).val, 0)
    /\ UNCHANGED <<seen, remote, mux>>

\* BaseHost.put_file_contents, to the return (no contents) or to its _exec_command
put_file_contents(filename, contents) ==
    /\ CanCall
    /\ IF contents.v = <<>>
       THEN /\ host' = [Enter("put_file_contents", "done", [filename |-> filename, contents |-> contents])
                           EXCEPT !.first = 0]
            /\ UNCHANGED <<cmds, hist, caller, result>>
       ELSE /\ host' = Enter("put_file_contents", "tee", [filename |-> filename, contents |-> contents])
            /\ exec_command(StrCmd(<<"tee", " ", "1>>/dev/null", " ">> \o filename),
                            contents, FALSE, "None")
    /\ UNCHANGED <<seen, remote, mux>>

\* BaseHost.put_file_contents, from its _exec_command to the return
put_file_contents_ret ==
    /\ Back("put_file_contents", "tee")
    /\ Finish(ExecLogExc(cmds[caller.cur]), NoValue, 0)
    /\ UNCHANGED <<seen, remote, mux>>

\* run_command: the working directory that applies (`if cwd is None: cwd = self.test_dir`)
Cwd(a) == IF a.cwd = <<>> THEN test_dir ELSE a.cwd

\* run_command: the token list handed to _exec_command
MainCommand(a, sourced) ==
    LET cmd_str ==
            (IF Cwd(a) # <<>> THEN <<"cd", " ">> \o Cwd(a) \o <<" ", "&&", " ">> ELSE <<>>)
            \o (IF sourced THEN <<"source", " ">> \o env_sh_path \o <<" ", "&&", " ">> ELSE <<>>)
            \o (IF command_prelude # <<>> THEN command_prelude \o <<" ", "&&", " ">> ELSE <<>>)
    IN IF a.argv.kind = "str"
       THEN ListCmd(shlex_split(cmd_str \o <<"(", " ">> \o a.argv.v \o <<" ", ")">>))
       ELSE ListCmd(shlex_split(cmd_str) \o << <<"(">> >> \o a.argv.v \o << <<")">> >>)

\* run_command that waits for its main command whatever bg is
LaunchMain_NoBg(h, sourced) ==
    /\ exec_command(MainCommand(h.a, sourced), h.a.stdin_text, FALSE, "utf-8")
    /\ host' = [h EXCEPT !.phase = "main"]

\* run_command: `return self._exec_command(cmd, stdin_data=stdin_text, bg=bg)`,
\* to the return for a background command and to wait() otherwise
LaunchMain(h, sourced) ==
    /\ exec_command(MainCommand(h.a, sourced), h.a.stdin_text, h.a.bg, "utf-8")
    /\ host' = IF h.a.bg THEN [h EXCEPT !.phase = "done", !.cmd = Len(cmds) + 1]
               ELSE [h EXCEPT !.phase = "main"]

\* run_command after mkdir: the probe for env.sh, or the main command
AfterMkdir(h) ==
    IF h.a.set_env
    THEN /\ host' = [h EXCEPT !.phase = "env"]
         /\ exec_command(StrCmd(<<"test", " ", "-f", " ">> \o env_sh_path), NoValue, FALSE, "utf-8")
    ELSE LaunchMain(h, FALSE)

\* the commands given to run_command, as a Popen-style list or as a script
RunArgv ==
    {[argv |-> ListCmd(<< <<"echo">>, <<"a", " ", "b">> >>), stdin_text |-> NoValue],
     [argv |-> StrCmd(<<"false">>), stdin_text |-> NoValue],
     [argv |-> StrCmd(<<"garble">>), stdin_text |-> NoValue],
     [argv |-> ListCmd(<< <<"garblefail">> >>), stdin_text |-> NoValue],
     [argv |-> StrCmd(<<"read">>), stdin_text |-> Str(<<233>>)]}

\* BaseHost.run_command, to the _exec_command of mkdir
run_command(argv, set_env, stdin_text, raiseonerr, cwd, bg) ==
    /\ CanCall
    /\ LET a == [argv |-> argv, set_env |-> set_env, stdin_text |-> stdin_text,
                 raiseonerr |-> raiseonerr, cwd |-> cwd, bg |-> bg]
           h == Enter("run_command", "mkdir", a)
       IN IF Cwd(a) # <<>>
          THEN /\ host' = h
               /\ exec_command(StrCmd(<<"mkdir", " ", "-p", " ">> \o Cwd(a)), NoValue, FALSE, "utf-8")
          ELSE AfterMkdir(h)
    /\ UNCHANGED <<seen, remote, mux>>

\* BaseHost.run_command, from mkdir to the next _exec_command
run_command_mkdir ==
    /\ Back("run_command", "mkdir")
    /\ IF ExecLogExc(cmds[caller.cur]) # "none"
       THEN Finish(ExecLogExc(cmds[caller.cur]), NoValue, 0)
       ELSE AfterMkdir(host)
    /\ UNCHANGED <<seen, remote, mux>>

\* run_command that sources env.sh whatever the probe found
run_command_env_Always ==
    /\ Back("run_command", "env")
    /\ IF ExecLogExc(cmds[caller.cur]) # "none"
       THEN Finish(ExecLogExc(cmds[caller.cur]), NoValue, 0)
       ELSE LaunchMain(host, TRUE)
    /\ UNCHANGED <<seen, remote, mux>>

\* BaseHost.run_command, from file_exists(env_sh_path) to the main _exec_command
run_command_env ==
    /\ Back("run_command", "env")
    /\ IF ExecLogExc(cmds[caller.cur]) # "none"
       THEN Finish(ExecLogExc(cmds[caller.cur]), NoValue, 0)
       ELSE LaunchMain(host, cmds[caller.cur].returncode = 0)
    /\ UNCHANGED <<seen, remote, mux>>

\* BaseHost.run_command, from the main _exec_command to the return of the command
run_command_main ==
    /\ Back("run_command", "main")
    /\ IF ExecLogExc(cmds[caller.cur]) # "none"
       THEN Finish(ExecLogExc(cmds[caller.cur]), NoValue, 0)
       ELSE Finish("none", NoValue, caller.cur)
    /\ UNCHANGED <<seen, remote, mux>>

\* ------------------------------------------------------------ host specifications
Paths == {<<"f">>, <<"f", " ", "g">>}
PutContents == {Str(<<>>), Str(<<233>>)}

\* a host on which nothing has run yet; the file f and env.sh may exist
InitHost ==
    /\ cmds = <<>>
    /\ caller = Idle
    /\ result = NoResult
    /\ seen = NoSeen
    /\ hist = <<>>
    /\ \E present \in SUBSET {<<"f">>, env_sh_path} :
          remote = [files |-> [w \in present |-> <<97>>], dirs |-> {}]
    /\ host = NoHost
    /\ mux = NoMux

\* the file operations of a host
NextHost ==
    \/ \E c \in CmdIds, s \in Streams : ProcWrite(c, s)
    \/ \E c \in CmdIds : ProcExit(c)
    \/ \E c \in CmdIds, s \in Streams : RecvFill(c, s)
    \/ \E c \in CmdIds, s \in Streams : do_recv(c, s)
    \/ WaitCloseStdin
    \/ \E s \in Streams : WaitJoin(s)
    \/ \E s \in Streams : WaitClose(s)
    \/ WaitProc
    \/ \E f \in Paths : file_exists(f)
    \/ file_exists_ret
    \/ \E d \in Paths : mkdir(d)
    \/ mkdir_ret
    \/ \E f \in Paths, e \in Encodings : get_file_contents(f, e)
    \/ get_file_contents_exists
    \/ get_file_contents_cat
    \/ \E f \in Paths, x \in PutContents : put_file_contents(f, x)
    \/ put_file_contents_ret

SpecHost == InitHost /\ [][NextHost]_vars

\* run_command on a host, and wait() on the commands it returned
NextRun ==
    \/ \E c \in CmdIds, s \in Streams : ProcWrite(c, s)
    \/ \E c \in CmdIds : ProcExit(c)
    \/ \E c \in CmdIds, s \in Streams : RecvFill(c, s)
    \/ \E c \in CmdIds, s \in Streams : do_recv(c, s)
    \/ \E c \in CmdIds : WaitEnter(c)
    \/ WaitCloseStdin
    \/ \E s \in Streams : WaitJoin(s)
    \/ \E s \in Streams : WaitClose(s)
    \/ WaitProc
    \/ \E prog \in RunArgv, set_env \in BOOLEAN, raiseonerr \in BOOLEAN, bg \in BOOLEAN :
          run_command(prog.argv, set_env, prog.stdin_text, raiseonerr, <<>>, bg)
    \/ run_command_mkdir
    \/ run_command_env
    \/ run_command_main

\* a host on which nothing has run yet; env.sh may exist
InitRun ==
    /\ cmds = <<>>
    /\ caller = Idle
    /\ result = NoResult
    /\ seen = NoSeen
    /\ hist = <<>>
    /\ \E present \in SUBSET {env_sh_path} :
          remote = [files |-> [w \in present |-> <<97>>], dirs |-> {}]
    /\ host = NoHost
    /\ mux = NoMux

SpecRun == InitRun /\ [][NextRun]_vars

\* run_command on a Unix or a Windows host, with and without a working
\* directory of the caller's
HostClasses == {"Host", "WinHost"}
RunCwd == {<<>>, <<"w">>}
PreludeArgv == {ListCmd(<< <<"echo">>, <<"a", " ", "b">> >>), StrCmd(<<"false">>)}
MaxRuns == 1          \* run_command calls in one behaviour of SpecPrelude

InitPrelude ==
    /\ cmds = <<>>
    /\ caller = Idle
    /\ result = NoResult
    /\ seen = NoSeen
    /\ hist = <<>>
    /\ \E present \in SUBSET {env_sh_path} :
          remote = [files |-> [w \in present |-> <<97>>], dirs |-> {}]
    /\ \E cls \in HostClasses : host = [NoHost EXCEPT !.cls = cls]
    /\ mux = NoMux

NextPrelude ==
    \/ \E c \in CmdIds, s \in Streams : ProcWrite(c, s)
    \/ \E c \in CmdIds : ProcExit(c)
    \/ \E c \in CmdIds, s \in Streams : RecvFill(c, s)
    \/ \E c \in CmdIds, s \in Streams : do_recv(c, s)
    \/ WaitCloseStdin
    \/ \E s \in Streams : WaitJoin(s)
    \/ \E s \in Streams : WaitClose(s)
    \/ WaitProc
    \/ \E argv \in PreludeArgv, set_env \in BOOLEAN, cwd \in RunCwd, bg \in BOOLEAN :
          host.nops < MaxRuns /\ run_command(argv, set_env, NoValue, TRUE, cwd, bg)
    \/ run_command_mkdir
    \/ run_command_env
    \/ run_command_main

SpecPrelude == InitPrelude /\ [][NextPrelude]_vars

\* ------------------------------------------------------------ connections
\* The ssh client that SSHCommand spawns, followed step by step.  Under the
\* specifications above a command runs on an established connection whose
\* credentials were accepted; below, every command starts with the client
\* connecting.
Hostnames == {"a", "b"}
Users == {"u", "v"}
Identities == {"k", "x"}       \* key files: k is authorized for every account, x for none
HostIds == {1, 2}              \* the BaseHost objects of the test

\* the server's answer to the credentials offered in the handshake
Accepts(user, hostname, identity) == identity = "k"

\* `-o ControlPath=/tmp/mytest-%r@%h:%p`: remote user, host name and port; no
\* port is ever passed to ssh, so %p is the default port
ControlPath(user, hostname) == <<user, hostname, 22>>

\* ssh after rejected credentials: "Permission denied" on stderr, exit status 255
Denied == Fixed(<<>>, <<97>>, 255, FALSE, "none", <<>>)

\* the ssh client of a new SSHCommand(self.hostname, user=self.ssh_username,
\* identity=self.ssh_key_filename, ...) for host object h.  avoid: the control
\* connection that was live when reset_connection was last called on h
SshStart(h) ==
    [path |-> ControlPath(mux.hosts[h].ssh_username, mux.hosts[h].hostname),
     identity |-> mux.hosts[h].ssh_key_filename,
     h |-> h, pc |-> "mux", conn |-> 0, shook |-> FALSE,
     avoid |-> mux.reset[h]]

\* the command object while its ssh client is still connecting
Connecting(variant, argv) ==
    [NewCommand(variant, "utf-8", argv, AnyProgram(FALSE)) EXCEPT !.proc = "connecting"]

CanLaunch == Len(cmds) < MaxSsh

\* test code constructs SSHCommand directly with the settings of host h; the
\* command is in flight and the caller goes on
SSHCommand(h) ==
    /\ CanLaunch /\ caller.pc = "idle" /\ host.phase = "done"
    /\ cmds' = Append(cmds, Connecting("mytest", << <<"test">>, <<"-f">>, <<"f">> >>))
    /\ hist' = Append(hist, [NoHist EXCEPT !.bg = TRUE])
    /\ mux' = [mux EXCEPT !.ssh = Append(@, SshStart(h)), !.reset[h] = 0]
    /\ UNCHANGED <<caller, result, seen, remote, host>>

\* BaseHost.file_exists on host object h, to the wait() of its _exec_command
file_exists_on(h, filename) ==
    /\ CanLaunch /\ CanCall
    /\ host' = Enter("file_exists", "test", [filename |-> filename])
    /\ cmds' = Append(Forget(cmds, hist),
                      Connecting("pytest", RemoteArgv(Tokens(StrCmd(<<"test", " ", "-f", " ">> \o filename)))))
    /\ hist' = Append(hist, [waits |-> 1, sends |-> 0, seq |-> 1, held |-> FALSE, bg |-> FALSE])
    /\ caller' = [pc |-> "close_stdin", cur |-> Len(cmds) + 1]
    /\ result' = [op |-> "wait", c |-> Len(cmds) + 1, rc |-> None, exc |-> "running"]
    /\ mux' = [mux EXCEPT !.ssh = Append(@, SshStart(h)), !.reset[h] = 0]
    /\ UNCHANGED <<seen, remote>>

\* the session starts: the remote shell runs the command
SshSession(c) == [cmds EXCEPT ![c].proc = "running", ![c].run = RemoteRun(cmds[c].argv, remote)]

\* ControlMaster=auto, first step: the client looks for a control socket at
\* its ControlPath; when a master listens there the session runs over the
\* master's connection, without a handshake of its own
SshMuxClient(c) ==
    /\ mux.ssh[c].pc = "mux"
    /\ LET master == mux.sock[mux.ssh[c].path] IN
       IF master # 0
       THEN /\ mux' = [mux EXCEPT !.ssh[c].pc = "run", !.ssh[c].conn = master]
            /\ cmds' = SshSession(c)
       ELSE /\ mux' = [mux EXCEPT !.ssh[c].pc = "auth"]
            /\ UNCHANGED cmds
    /\ UNCHANGED <<caller, result, seen, hist, remote, host>>

\* no master: the client connects and authenticates with its own identity
SshAuth(c) ==
    /\ mux.ssh[c].pc = "auth"
    /\ LET s == mux.ssh[c] IN
       IF Accepts(s.path[1], s.path[2], s.identity)
       THEN /\ mux' = [mux EXCEPT !.ssh[c].pc = "listen", !.ssh[c].conn = c,
                                  !.ssh[c].shook = TRUE]
            /\ UNCHANGED cmds
       ELSE /\ mux' = [mux EXCEPT !.ssh[c].pc = "denied", !.ssh[c].shook = TRUE]
            /\ cmds' = [cmds EXCEPT ![c].proc = "running", ![c].run = Denied]
    /\ UNCHANGED <<caller, result, seen, hist, remote, host>>

\* ControlMaster=auto, after authentication: the client binds the control
\* socket and becomes the master; when the socket exists by now it goes on
\* with its own connection, unshared
SshMuxListen(c) ==
    /\ mux.ssh[c].pc = "listen"
    /\ mux' = [mux EXCEPT !.ssh[c].pc = "run",
                          !.sock[mux.ssh[c].path] = IF @ = 0 THEN c ELSE @]
    /\ cmds' = SshSession(c)
    /\ UNCHANGED <<caller, result, seen, hist, remote, host>>

\* a session of connection n is in progress
InUse(n) == \E c \in DOMAIN mux.ssh : mux.ssh[c].conn = n /\ cmds[c].proc # "exited"

\* ControlPersist=10m: a master without sessions goes away after the idle time
ControlPersist(path) ==
    /\ mux.sock[path] # 0
    /\ ~InUse(mux.sock[path])
    /\ mux' = [mux EXCEPT !.sock[path] = 0]
    /\ UNCHANGED <<cmds, caller, result, seen, hist, remote, host>>

\* a reset that closes the control connection of the host's ControlPath: the
\* sessions running over it end with ssh's exit status 255
reset_connection_Close(h) ==
    /\ caller.pc = "idle" /\ host.phase = "done"
    /\ LET path == ControlPath(mux.hosts[h].ssh_username, mux.hosts[h].hostname)
           master == mux.sock[path]
       IN /\ mux' = [mux EXCEPT !.reset[h] = master, !.sock[path] = 0]
          /\ cmds' = [c \in DOMAIN cmds |->
                        IF master # 0 /\ mux.ssh[c].conn = master /\ cmds[c].proc = "running"
                        THEN [cmds[c] EXCEPT !.proc = "exited", !.exit = 255]
                        ELSE cmds[c]]
    /\ UNCHANGED <<caller, result, seen, hist, remote, host>>

\* BaseHost.reset_connection: `del self._transport` raises AttributeError, as
\* no _transport attribute is ever set, and the bare except swallows it
reset_connection(h) ==
    /\ caller.pc = "idle" /\ host.phase = "done"
    /\ mux' = [mux EXCEPT !.reset[h] = mux.sock[ControlPath(mux.hosts[h].ssh_username,
                                                           mux.hosts[h].hostname)]]
    /\ UNCHANGED <<cmds, caller, result, seen, hist, remote, host>>

\* the test changes host.ssh_username / host.ssh_key_filename
Configure(h, user, identity) ==
    /\ caller.pc = "idle" /\ host.phase = "done"
    /\ mux.nconf < MaxConf
    /\ mux.hosts[h].ssh_username # user \/ mux.hosts[h].ssh_key_filename # identity
    /\ mux' = [mux EXCEPT !.hosts[h].ssh_username = user,
                          !.hosts[h].ssh_key_filename = identity,
                          !.nconf = @ + 1]
    /\ UNCHANGED <<cmds, caller, result, seen, hist, remote, host>>

\* two host objects as configured; no connection exists yet
InitConn ==
    /\ cmds = <<>>
    /\ caller = Idle
    /\ result = NoResult
    /\ seen = NoSeen
    /\ hist = <<>>
    /\ remote = [files |-> [w \in {<<"f">>} |-> <<97>>], dirs |-> {}]
    /\ host = NoHost
    /\ \E n2 \in Hostnames, i1 \in Identities, keeps \in BOOLEAN :
          mux = [hosts |-> << [hostname |-> "a", ssh_username |-> "u", ssh_key_filename |-> i1],
                              [hostname |-> n2, ssh_username |-> "u", ssh_key_filename |-> "k"] >>,
                 sock |-> [p \in {ControlPath(u, n) : u \in Users, n \in Hostnames} |-> 0],
                 ssh |-> <<>>,
                 reset |-> [h \in HostIds |-> 0],
                 nconf |-> 0,
                 keeps |-> keeps]

NextConn ==
    \/ \E h \in HostIds : SSHCommand(h)
    \/ \E h \in HostIds : file_exists_on(h, <<"f">>)
    \/ file_exists_ret
    \/ \E c \in CmdIds : SshMuxClient(c)
    \/ \E c \in CmdIds : SshAuth(c)
    \/ \E c \in CmdIds : SshMuxListen(c)
    \/ \E u \in Users, n \in Hostnames : ControlPersist(ControlPath(u, n))
    \/ \E h \in HostIds : reset_connection(h)
    \/ \E h \in HostIds, u \in Users, i \in Identities : Configure(h, u, i)
    \/ \E c \in CmdIds, s \in Streams : ProcWrite(c, s)
    \/ \E c \in CmdIds : ProcExit(c)
    \/ \E c \in CmdIds, s \in Streams : RecvFill(c, s)
    \/ \E c \in CmdIds, s \in Streams : do_recv(c, s)
    \/ WaitCloseStdin
    \/ \E s \in Streams : WaitJoin(s)
    \/ \E s \in Streams : WaitClose(s)
    \/ WaitProc

SpecConn == InitConn /\ [][NextConn]_vars

\* commands constructed directly, reset while they are in flight, then sent to
\* and waited on
NextReset ==
    \/ \E h \in HostIds : SSHCommand(h)
    \/ \E c \in CmdIds : SshMuxClient(c)
    \/ \E c \in CmdIds : SshAuth(c)
    \/ \E c \in CmdIds : SshMuxListen(c)
    \/ \E h \in HostIds : reset_connection(h)
    \/ \E c \in CmdIds : send(c, Bytes(<<195>>))
    \/ \E c \in CmdIds : WaitEnter(c)
    \/ \E c \in CmdIds, s \in Streams : ProcWrite(c, s)
    \/ \E c \in CmdIds : ProcExit(c)
    \/ \E c \in CmdIds, s \in Streams : RecvFill(c, s)
    \/ \E c \in CmdIds, s \in Streams : do_recv(c, s)
    \/ WaitCloseStdin
    \/ \E s \in Streams : WaitJoin(s)
    \/ \E s \in Streams : WaitClose(s)
    \/ WaitProc

SpecReset == InitConn /\ [][NextReset]_vars

\* the remote commands of the tests below: `cat f` prints the file and ends on
\* its own, `cat` reads its input to the end
LiveCommands == {<< <<"cat">>, <<"f">> >>, << <<"cat">> >>}

\* SSHCommand(hostname, user, identity, command) constructed directly with the
\* settings of host h
SSHCommandOf(h, command) ==
    /\ CanLaunch /\ caller.pc = "idle" /\ host.phase = "done"
    /\ cmds' = Append(cmds, Connecting("mytest", command))
    /\ hist' = Append(hist, [NoHist EXCEPT !.bg = TRUE])
    /\ mux' = [mux EXCEPT !.ssh = Append(@, SshStart(h)), !.reset[h] = 0]
    /\ UNCHANGED <<caller, result, seen, remote, host>>

\* two host objects for the same account of the same machine, with an accepted key
InitLive ==
    /\ cmds = <<>>
    /\ caller = Idle
    /\ result = NoResult
    /\ seen = NoSeen
    /\ hist = <<>>
    /\ remote = [files |-> [w \in {<<"f">>} |-> <<97>>], dirs |-> {}]
    /\ host = NoHost
    /\ \E keeps \in BOOLEAN :
          mux = [hosts |-> [h \in HostIds |->
                               [hostname |-> "a", ssh_username |-> "u", ssh_key_filename |-> "k"]],
                 sock |-> [p \in {ControlPath(u, n) : u \in Users, n \in Hostnames} |-> 0],
                 ssh |-> <<>>,
                 reset |-> [h \in HostIds |-> 0],
                 nconf |-> 0,
                 keeps |-> keeps]

NextLive ==
    \/ \E h \in HostIds, command \in LiveCommands : SSHCommandOf(h, command)
    \/ \E c \in CmdIds : SshMuxClient(c)
    \/ \E c \in CmdIds : SshAuth(c)
    \/ \E c \in CmdIds : SshMuxListen(c)
    \/ \E u \in Users, n \in Hostnames : ControlPersist(ControlPath(u, n))
    \/ \E c \in CmdIds : WaitEnter(c)
    \/ \E c \in CmdIds, s \in Streams : ProcWrite(c, s)
    \/ \E c \in CmdIds : ProcExit(c)
    \/ \E c \in CmdIds, s \in Streams : RecvFill(c, s)
    \/ \E c \in CmdIds, s \in Streams : do_recv(c, s)
    \/ WaitCloseStdin
    \/ \E s \in Streams : WaitJoin(s)
    \/ \E s \in Streams : WaitClose(s)
    \/ WaitProc

\* everything but the caller's decisions to launch and to wait goes on when it
\* can: the ssh clients, the remote processes, the drainer threads, the steps
\* of a wait() in progress and the master's idle timer
LiveFair ==
    /\ \A c \in 1..MaxSsh :
          /\ WF_vars(c \in CmdIds /\ SshMuxClient(c))
          /\ WF_vars(c \in CmdIds /\ SshAuth(c))
          /\ WF_vars(c \in CmdIds /\ SshMuxListen(c))
          /\ WF_vars(c \in CmdIds /\ ProcExit(c))
          /\ \A s \in Streams :
                /\ WF_vars(c \in CmdIds /\ ProcWrite(c, s))
                /\ WF_vars(c \in CmdIds /\ RecvFill(c, s))
                /\ WF_vars(c \in CmdIds /\ do_recv(c, s))
    /\ WF_vars(WaitCloseStdin) /\ WF_vars(WaitProc)
    /\ \A s \in Streams : WF_vars(WaitJoin(s)) /\ WF_vars(WaitClose(s))
    /\ \A u \in Users, n \in Hostnames : WF_vars(ControlPersist(ControlPath(u, n)))

SpecLive == InitLive /\ [][NextLive]_vars /\ LiveFair

\* ============================================================ claims
Finalized(c) == cmds[c].returncode # None

C2_WaitIdempotent ==
    \A c \in CmdIds :
        /\ hist[c].seq <= 1
        /\ (result.op = "wait" /\ result.c = c /\ result.exc = "none" /\ hist[c].waits >= 2)
               => result.rc = cmds[c].exit

\* C7: a read of stdout_text on a finalized command with an encoding never
\* raises; it yields the decoded text when the concatenated bytes decode and the
\* raw concatenated bytes otherwise.
C7_StdoutNeverRaises ==
    (seen.acc = "stdout" /\ seen.fin /\ cmds[seen.c].encoding # "None") =>
        /\ seen.exc = "none"
        /\ seen.val = IF Utf8Valid(seen.raw) THEN Str(Utf8Decode(seen.raw))
                      ELSE Bytes(seen.raw)
        /\ seen.raw = cmds[seen.c].written["out"]

\* stdout_text was read on a finalized utf-8 command whose output is not valid text
C7_Witness ==
    /\ seen.acc = "stdout" /\ seen.fin
    /\ cmds[seen.c].encoding = "utf-8"
    /\ ~Utf8Valid(seen.raw)
    /\ seen.val = Bytes(seen.raw)

\* C8: a read of stdout_text or stderr_text made while returncode is not yet
\* set yields the empty string and does not raise.
C8_EmptyBeforeFinalized ==
    (seen.acc # "none" /\ ~seen.fin) => (seen.exc = "none" /\ seen.val = Str(<<>>))

\* stderr_text was read before finalization, wait() is in progress and the
\* drainer has already accumulated bytes that are not valid text
C8_Witness ==
    /\ seen.acc = "stderr" /\ ~seen.fin
    /\ ~Finalized(seen.c)
    /\ caller.pc = "join_err" /\ caller.cur = seen.c
    /\ ~Utf8Valid(Join(err_data(cmds[seen.c])))

\* C10: wait() on a process that terminated with a non-zero code does not raise,
\* whatever the process wrote to stderr: it stores the code and returns it.
C10_WaitDoesNotRaise ==
    (result.op = "wait" /\ result.exc # "running" /\ cmds[result.c].exit # 0) =>
        /\ result.exc = "none"
        /\ result.rc = cmds[result.c].exit
        /\ cmds[result.c].returncode = cmds[result.c].exit

\* a foreground run_command has returned its command
FgReturned ==
    /\ host.fn = "run_command" /\ host.phase = "done" /\ host.exc = "none"
    /\ ~host.a.bg

\* the command is Finalized with the process's exit code and its stdout_text
\* is the process's complete stdout, decoded when it is text
FgFinalized(o) ==
    /\ o.proc = "exited"
    /\ o.returncode # None /\ o.returncode = o.exit
    /\ \A s \in Streams : o.thread[s].st = "done" /\ o.pipe[s] = <<>>
    /\ stdout_text(o).exc = "none"
    /\ stdout_text(o).val = IF Utf8Valid(o.run.todo["out"])
                            THEN Str(Utf8Decode(o.run.todo["out"]))
                            ELSE Bytes(o.run.todo["out"])

\* C3 as stated: when run_command with bg false returns, the command is
\* Finalized, returncode is the process's exit code and both stdout_text and
\* stderr_text return the process's complete output.
C3_FgComplete_AsStated ==
    FgReturned =>
        LET o == cmds[host.cmd] IN
        /\ FgFinalized(o)
        /\ stderr_text(o).exc = "none"
        /\ Utf8Encode(stderr_text(o).val.v) = o.run.todo["err"]

\* C3, amended: when run_command with bg false returns, the command is
\* Finalized, returncode is the process's exit code, stdout_text returns the
\* complete stdout, and stderr_text returns the complete stderr when those bytes
\* are valid text and raises the decode error otherwise.
C3_FgComplete ==
    FgReturned =>
        LET o == cmds[host.cmd] IN
        /\ FgFinalized(o)
        /\ IF Utf8Valid(o.run.todo["err"])
           THEN stderr_text(o) = [val |-> Str(Utf8Decode(o.run.todo["err"])), exc |-> "none"]
           ELSE stderr_text(o).exc = "UnicodeDecodeError"

\* run_command(['echo', ...]) has returned: stdout_text is the echoed text and
\* returncode is 0
C3_Witness ==
    /\ FgReturned
    /\ host.a.argv.kind = "list"
    /\ cmds[host.cmd].returncode = 0
    /\ stdout_text(cmds[host.cmd]).val = Str(<<97>>)
    /\ Join(out_data(cmds[host.cmd])) = <<97>>

\* C4: run_command(bg=True) never waits for its main command, so the command
\* it returns has no returncode and an open stdin until the caller waits on it;
\* a wait() on a background command that returns gives the process's exit code,
\* never None.  (That a later foreground command is finalized meanwhile is the
\* witness.)
C4_Background ==
    /\ (host.fn = "run_command" /\ host.a.bg) => host.phase # "main"
    /\ \A c \in CmdIds :
          (hist[c].bg /\ hist[c].waits = 0) =>
              /\ hist[c].held
              /\ cmds[c].returncode = None
              /\ ~cmds[c].closed["in"]
    /\ (result.op = "wait" /\ result.exc = "none" /\ hist[result.c].bg) =>
          (result.rc # None /\ result.rc = cmds[result.c].exit)

\* a foreground command started after a background command is finalized and
\* returned while the background command, not yet waited on, is still running
C4_Witness ==
    \E b \in CmdIds, f \in CmdIds :
        /\ b < f
        /\ hist[b].bg /\ hist[b].waits = 0 /\ cmds[b].proc = "running"
        /\ FgReturned /\ host.cmd = f /\ cmds[f].returncode # None

\* put_file_contents(p, c) returned and the next call, get_file_contents(p, e),
\* has returned or raised
PutThenGet ==
    /\ host.fn = "get_file_contents" /\ host.phase = "done"
    /\ host.prev.fn = "put_file_contents" /\ host.prev.exc = "none"
    /\ host.prev.a.filename = host.a.filename
    /\ host.prev.a.contents.t = "str" /\ host.prev.a.contents.v # <<>>

\* C5: put_file_contents(p, c) followed by get_file_contents(p) returns the
\* bytes of c encoded, and with encoding='utf-8' the string c, for every
\* non-empty text c and every remote path p.
C5_RoundTrip ==
    PutThenGet =>
        /\ host.exc = "none"
        /\ host.val = IF host.a.encoding = "None"
                      THEN Bytes(Utf8Encode(host.prev.a.contents.v))
                      ELSE Str(host.prev.a.contents.v)

\* C6: when the `test -f` probe of a get_file_contents call does not exit with
\* code 0, the call raises IOError and launches no further command.
C6_NotFound ==
    (host.fn = "get_file_contents" /\ host.phase # "exists"
        /\ cmds[host.first].returncode # 0) =>
        /\ host.phase = "done"
        /\ host.exc = "IOError"
        /\ Len(cmds) = host.first

\* get_file_contents of a file that does not exist has raised IOError after
\* its probe exited with code 1
C6_Witness ==
    /\ host.fn = "get_file_contents" /\ host.phase = "done"
    /\ host.exc = "IOError"
    /\ cmds[host.first].argv = << <<"test">>, <<"-f">>, <<"f">> >>
    /\ cmds[host.first].returncode = 1
    /\ Len(cmds) = host.first

\* C9: a foreground run_command with raiseonerr true never returns normally a
\* command whose exit code is not 0.
C9_RaiseOnErr ==
    (FgReturned /\ host.a.raiseonerr) => cmds[host.cmd].returncode = 0

\* the server rejected the credentials of the ssh client of command c
Rejected(c) == c \in DOMAIN mux.ssh /\ mux.ssh[c].pc = "denied"

\* C11: when the credentials offered for a command are rejected, the engine's
\* wait() and the facade operation that launched the command end with an
\* AuthenticationError (not with an ordinary exit code or another outcome), and
\* the operation launches the command only once.
C11_AuthError ==
    /\ (result.op = "wait" /\ result.exc # "running" /\ Rejected(result.c)) =>
           result.exc = "AuthenticationError"
    /\ (host.fn = "file_exists" /\ host.phase = "done" /\ Rejected(host.first)) =>
           (host.exc = "AuthenticationError" /\ Len(cmds) = host.first)

\* the session of command c is running over its connection
InFlight(c) == mux.ssh[c].pc = "run" /\ cmds[c].proc = "running"

\* C12: two commands in flight at the same time with the same user, host and
\* port run over one shared control connection for which at most one of them
\* performed a handshake; two commands that differ in user or host never run
\* over the same connection.
C12_SharedChannel ==
    \A i \in DOMAIN mux.ssh, j \in DOMAIN mux.ssh :
        (i < j /\ InFlight(i) /\ InFlight(j)) =>
            IF mux.ssh[i].path = mux.ssh[j].path
            THEN /\ mux.ssh[i].conn = mux.ssh[j].conn
                 /\ ~(mux.ssh[i].shook /\ mux.ssh[j].shook)
            ELSE mux.ssh[i].conn # mux.ssh[j].conn

\* C13: the first command launched for a host after reset_connection() was
\* called on it while it had a live control connection runs over a fresh
\* connection, opened with a handshake of its own, and not over the connection
\* that was live at the reset.
C13_FreshChannel ==
    \A c \in DOMAIN mux.ssh :
        (mux.ssh[c].avoid # 0 /\ mux.ssh[c].pc = "run") =>
            /\ mux.ssh[c].conn # mux.ssh[c].avoid
            /\ mux.ssh[c].shook

\* C14: once wait() has set the exit code of a command, no step changes the
\* exit code or the value that stdout_text or stderr_text returns: every later
\* read gives what the first read after finalization gave.
C14_ResultStable ==
    [][\A c \in CmdIds :
          cmds[c].returncode # None =>
              /\ cmds'[c].returncode = cmds[c].returncode
              /\ stdout_text(cmds'[c]) = stdout_text(cmds[c])
              /\ stderr_text(cmds'[c]) = stderr_text(cmds[c])]_vars

\* the accumulator of stream s of command object o
Accumulator(o, s) == IF s = "out" THEN out_data(o) ELSE err_data(o)

\* C20: in every step each accumulator either stays as it is or gets the chunk
\* that its own drainer has just read appended (it is never replaced, truncated
\* or written by anything else), and an accessor joins an accumulator only when
\* its drainer has terminated.
C20_SingleWriter ==
    /\ [](seen.fin => \A s \in Streams : cmds[seen.c].thread[s].st = "done")
    /\ [][\A c \in CmdIds, s \in Streams :
             \/ Accumulator(cmds'[c], s) = Accumulator(cmds[c], s)
             \/ /\ cmds[c].thread[s].st = "reading"
                /\ cmds[c].thread[s].buf # <<>>
                /\ Accumulator(cmds'[c], s) = Append(Accumulator(cmds[c], s), cmds[c].thread[s].buf)]_vars

\* C15: from construction on, whatever the caller does, a pipe that holds
\* unread bytes has its drainer running, for stdout and for stderr alike, and a
\* pipe that is full (a write to it blocks) gets room again: the process is
\* never blocked forever on a write.
C15_NoPipeDeadlock ==
    /\ [](\A s \in Streams : cmds[1].pipe[s] # <<>> => cmds[1].thread[s].st = "reading")
    /\ \A s \in Streams :
          (Len(cmds[1].pipe[s]) = PipeCap) ~> (Len(cmds[1].pipe[s]) < PipeCap)

\* the process has written more to stderr than the pipe holds, the pipe is
\* full again, and the caller has never called wait()
C15_Witness ==
    /\ hist[1].waits = 0
    /\ cmds[1].proc = "running"
    /\ Len(cmds[1].written["err"]) > PipeCap
    /\ Len(cmds[1].pipe["err"]) = PipeCap

\* C16: the exit code of a command is assigned at most once, and when it is
\* assigned stdin has been closed and both drainers have read to the end of
\* their stream and terminated; so no wait() has returned an exit code while a
\* drainer was running.
C16_AssignedOnce ==
    /\ [](\A c \in CmdIds :
             cmds[c].returncode # None =>
                 \A s \in Streams : cmds[c].thread[s].st = "done")
    /\ [][(caller.pc = "proc_wait" /\ caller'.pc # "proc_wait") =>
             /\ cmds[caller.cur].returncode = None
             /\ cmds[caller.cur].closed["in"]
             /\ \A s \in Streams :
                   /\ cmds[caller.cur].thread[s].st = "done"
                   /\ cmds[caller.cur].pipe[s] = <<>>
             /\ cmds'[caller.cur].returncode = cmds[caller.cur].exit]_vars

\* C17: wait() closes stdin, joins the stdout drainer, closes stdout, joins
\* the stderr drainer, closes stderr and then waits for the process, each step
\* after the one before: a stream is closed only after its drainer terminated,
\* the joins begin only after stdin was closed, stderr is handled only after
\* stdout was closed and the exit code is recorded last.
C17_WaitOrder ==
    \A c \in CmdIds :
        /\ cmds[c].closed["out"] =>
               (cmds[c].closed["in"] /\ cmds[c].thread["out"].st = "done")
        /\ cmds[c].closed["err"] =>
               (cmds[c].closed["out"] /\ cmds[c].thread["err"].st = "done")
        /\ cmds[c].returncode # None =>
               (cmds[c].closed["err"] /\ cmds[c].proc = "exited")
        /\ (caller.cur = c /\ caller.pc \in {"join_out", "close_out"}) =>
               (cmds[c].closed["in"] /\ (hist[c].seq = 1 => ~cmds[c].closed["out"]))
        /\ (caller.cur = c /\ caller.pc \in {"join_err", "close_err"}) =>
               (cmds[c].closed["out"] /\ (hist[c].seq = 1 => ~cmds[c].closed["err"]))
        /\ (caller.cur = c /\ caller.pc = "proc_wait") =>
               (cmds[c].closed["err"] /\ (hist[c].seq = 1 => cmds[c].returncode = None))

\* the first wait() is blocked in the join of the stderr drainer: stdin and
\* stdout are closed, stderr is open and its drainer still has bytes to read
C17_Witness ==
    /\ caller.pc = "join_err" /\ hist[caller.cur].seq = 1
    /\ cmds[caller.cur].closed["in"] /\ cmds[caller.cur].closed["out"]
    /\ ~cmds[caller.cur].closed["err"]
    /\ cmds[caller.cur].thread["err"].st = "reading"
    /\ cmds[caller.cur].pipe["err"] # <<>>

\* C18: a read of stderr_text on a finalized command yields the accumulated
\* stderr bytes decoded as text (with the encoding, or the default codec when
\* the encoding is None) when they are valid text, and raises the decode error
\* otherwise; it never yields raw bytes.
C18_StderrDecode ==
    (seen.acc = "stderr" /\ seen.fin) =>
        /\ seen.raw = cmds[seen.c].written["err"]
        /\ IF Utf8Valid(seen.raw)
           THEN seen.exc = "none" /\ seen.val = Str(Utf8Decode(seen.raw))
           ELSE seen.exc = "UnicodeDecodeError" /\ seen.val = NoValue

\* stderr_text was read on a finalized command without encoding whose stderr
\* is not valid text, and raised
C18_Witness ==
    /\ seen.acc = "stderr" /\ seen.fin
    /\ cmds[seen.c].encoding = "None"
    /\ seen.raw = <<195>>
    /\ seen.exc = "UnicodeDecodeError"

\* C19: the bytes on the process's stdin change only by a send() on a command
\* whose stdin is not closed and whose exit code is not set; a send() that
\* returns has appended all of its data, encoded, after everything sent before;
\* a send() that raises, as every send of data after wait() closed stdin does,
\* has written nothing.
C19_SendDelivers ==
    [][\A c \in CmdIds :
          LET sent == hist'[c].sends = hist[c].sends + 1
              wrote == cmds'[c].pipe["in"] # cmds[c].pipe["in"]
              bytes == IF result'.data.t = "bytes" THEN result'.data.v
                       ELSE Utf8Encode(result'.data.v)
          IN /\ wrote => (sent /\ ~cmds[c].closed["in"] /\ cmds[c].returncode = None)
             /\ sent => /\ result'.op = "send" /\ result'.c = c
                        /\ IF result'.exc = "none"
                           THEN /\ cmds'[c].pipe["in"] = cmds[c].pipe["in"] \o bytes
                                /\ cmds[c].closed["in"] => result'.data.v = <<>>
                           ELSE ~wrote]_vars

\* two sends, bytes and then text, have reached stdin in that order, the text
\* encoded
C19_Witness ==
    /\ result.op = "send" /\ result.exc = "none"
    /\ result.data = Str(<<233>>)
    /\ cmds[result.c].pipe["in"] = <<195, 195, 169>>

\* C21: a reset_connection() step changes nothing of any command (process,
\* streams, drainers, accumulators, exit code), of the calls made on it or of
\* the control connections; and a command whose credentials were accepted,
\* reset or not while it was in flight, is finalized by wait() with the exit
\* code and the output of its remote program.
C21_ResetFrame ==
    /\ [][(mux'.reset # mux.reset /\ mux'.ssh = mux.ssh) =>
             (cmds' = cmds /\ hist' = hist /\ mux'.sock = mux.sock)]_vars
    /\ [](\A c \in DOMAIN mux.ssh :
             (Finalized(c) /\ mux.ssh[c].pc = "run") =>
                 /\ cmds[c].returncode = RemoteRun(cmds[c].argv, remote).code
                 /\ Join(out_data(cmds[c])) = cmds[c].written["out"])

\* reset_connection() was called on the host of a command whose session is
\* running over the control connection that the command itself opened, and the
\* command has since been sent to and is being waited on
C21_Witness ==
    \E c \in DOMAIN mux.ssh :
        /\ mux.reset[mux.ssh[c].h] = c /\ mux.ssh[c].conn = c
        /\ hist[c].sends = 1 /\ cmds[c].pipe["in"] = <<195>>
        /\ caller.cur = c /\ caller.pc = "proc_wait"

\* the main command of the run_command call in progress or just returned, 0
\* when none was launched (yet)
MainOf ==
    IF host.fn # "run_command" THEN 0
    ELSE IF host.phase = "main" THEN Len(cmds)
    ELSE IF host.phase = "done" THEN host.cmd
    ELSE 0

\* the commands run_command launches ahead of the main command
PreludeOf(a) ==
    (IF Cwd(a) # <<>> THEN << << <<"mkdir">>, <<"-p">>, Cwd(a) >> >> ELSE <<>>)
    \o (IF a.set_env THEN << << <<"test">>, <<"-f">>, env_sh_path >> >> ELSE <<>>)

Has(argv, word) == \E i \in DOMAIN argv : argv[i] = word

\* C22: when the main command of a run_command call has been launched, the
\* commands launched before it in the call are exactly `mkdir -p` of the working
\* directory and then, if and only if set_env, the `test -f env.sh` probe, all
\* finalized; the main command sources env.sh if and only if set_env and the
\* probe exited 0; and it has the `set -e` prelude if and only if the host is a
\* Host, not a WinHost.
C22_Prelude ==
    MainOf # 0 =>
        LET first == host.first
            main == cmds[MainOf]
            pre == PreludeOf(host.a)
        IN /\ MainOf = first + Len(pre)
           /\ \A k \in 1..Len(pre) :
                  /\ cmds[first + k - 1].argv = pre[k]
                  /\ Finalized(first + k - 1)
           /\ Has(main.argv, <<"source">>) <=>
                  (host.a.set_env /\ cmds[MainOf - 1].returncode = 0)
           /\ Has(main.argv, <<"source">>) => Has(main.argv, env_sh_path)
           /\ (Has(main.argv, <<"set">>) /\ Has(main.argv, <<"-e">>)) <=> host.cls = "Host"
           /\ Has(main.argv, <<"cd">>) /\ Has(main.argv, Cwd(host.a))

\* a background command launched on a WinHost in the caller's directory after a
\* probe that found no env.sh
C22_Witness ==
    /\ MainOf # 0 /\ host.cls = "WinHost" /\ host.a.bg /\ host.a.set_env
    /\ host.a.cwd = <<"w">>
    /\ cmds[MainOf - 1].returncode = 1
    /\ ~Has(cmds[MainOf].argv, <<"source">>)

\* C23: once the process of a command has exited while wait() is in progress
\* on the command, wait() eventually returns: the exit code gets set.
C23_WaitReturns ==
    \A c \in 1..MaxSsh :
        (c \in CmdIds /\ caller.cur = c /\ caller.pc # "idle" /\ cmds[c].proc = "exited")
            ~> (c \in CmdIds /\ Finalized(c))

\* C24: for a command on which wait() has not been called: once its process
\* has exited, both drainers eventually terminate (or wait() is called); while
\* its process reads stdin to the end, no drainer has terminated; and all along
\* the exit code is unset and both accessors return the empty text.
C24_BgDrains ==
    /\ \A c \in 1..MaxSsh :
          (c \in CmdIds /\ hist[c].waits = 0 /\ cmds[c].proc = "exited")
              ~> (c \in CmdIds /\ (hist[c].waits > 0 \/
                                     \A s \in Streams : cmds[c].thread[s].st = "done"))
    /\ [](\A c \in CmdIds :
             hist[c].waits = 0 =>
                 /\ cmds[c].returncode = None
                 /\ stdout_text(cmds[c]) = [val |-> Str(<<>>), exc |-> "none"]
                 /\ stderr_text(cmds[c]) = [val |-> Str(<<>>), exc |-> "none"]
                 /\ (cmds[c].proc = "running" /\ cmds[c].run.waitsEof) =>
                        \A s \in Streams : cmds[c].thread[s].st = "reading")

====
